---------------------------- MODULE Spec2Model ----------------------------
(***************************************************************************)
(* A model of the navigation core of lf (src/nav.go): directory listings,  *)
(* their sort and cursor arithmetic, the navigation stack, the asynchronous *)
(* directory loader and the mark set.                                       *)
(*                                                                          *)
(* Conventions.  A file name is the sequence of its bytes (ASCII codes), a  *)
(* path is the sequence of its components (<<>> is the root "/").  Go      *)
(* slices are 0-based, TLA+ sequences 1-based: the cursor fields ind and    *)
(* pos keep Go's 0-based values, so the entry under the cursor is           *)
(* fi[ind + 1].                                                             *)
(*                                                                          *)
(* nav.dirs holds pointers to dir objects.  Every pointer on the stack is   *)
(* the pointer dirCache holds for that path (loadDir returns the cached     *)
(* pointer, renew re-inserts the stack's pointers, the consumer of dirChan  *)
(* replaces both), so the stack is the sequence of its paths and the dir    *)
(* objects live in dirCache.                                                *)
(***************************************************************************)
EXTENDS Integers, Sequences, FiniteSets, TLC

VARIABLES
    dirs,      \* nav.dirs: the stack, as the paths of its listings
    dirCache,  \* nav.dirCache: path -> dir object
    inflight,  \* scan workers spawned and not yet received from dirChan: path -> count
    cwd,       \* the process's working directory (os.Chdir / os.Getwd)
    marks,     \* nav.marks: path -> sequence number
    markInd,   \* nav.markInd
    height,    \* nav.height
    search,    \* nav.search
    gOpts,     \* the global options read by sort, find, up, down and match
    ret,       \* the last operation: its name, whether it returned an error, its argument
    crashed,   \* a Go runtime panic (index out of range, nil dereference) ended the process
    markHist,  \* history: the marked paths in the order of their latest add
    removed,   \* the file system: the paths removed since the start
    store,     \* the pending-operation store that saveFiles writes and loadFiles reads
    saves,     \* nav.saves: path -> copy
    regCache,  \* nav.regCache: path -> reg
    previews,  \* preview workers spawned and not yet received from regChan
    scanned    \* history: the entries of the sorted listing as readdir returned them

\* the state that the cursor, stack and loader operations leave alone
Extra == <<removed, store, saves, regCache, previews, scanned>>

vars == <<dirs, dirCache, inflight, cwd, marks, markInd, height, search,
          gOpts, ret, crashed, markHist, Extra>>

(***************************************************************************)
(* Bounds of the model.                                                     *)
(***************************************************************************)
MaxFiles == 3       \* entries of a scanned directory in SpecSort / SpecCursor
MaxHeight == 2      \* viewport heights 1..MaxHeight
MaxScrolloff == 1   \* scrolloff 0..MaxScrolloff
MaxDist == 2        \* up/down distances 1..MaxDist
MaxMarkInd == 4     \* cap of the mark counter
MaxInflight == 2    \* cap of concurrently blocked scan workers
MaxAppend == 1      \* cap of entries appended to a loading placeholder
MaxPreviews == 2    \* cap of preview workers spawned and not yet received

Min(a, b) == IF a < b THEN a ELSE b
Max(a, b) == IF a > b THEN a ELSE b

\* a Go map without a key, and with a key set
Without(m, path) == [q \in DOMAIN m \ {path} |-> m[q]]
With(m, path, v) == [q \in DOMAIN m \cup {path} |-> IF q = path THEN v ELSE m[q]]

(***************************************************************************)
(* Strings: byte sequences.                                                 *)
(***************************************************************************)
ToLower(s) == [i \in DOMAIN s |-> IF s[i] \in 65..90 THEN s[i] + 32 ELSE s[i]]

RECURSIVE StrLess(_, _)
StrLess(s, t) ==
    IF t = <<>> THEN FALSE
    ELSE IF s = <<>> THEN TRUE
    ELSE IF s[1] # t[1] THEN s[1] < t[1]
    ELSE StrLess(Tail(s), Tail(t))

\* strings.Contains(name, pattern)
Contains(name, pattern) ==
    \E i \in 0..(Len(name) - Len(pattern)) :
        SubSeq(name, i + 1, i + Len(pattern)) = pattern

IsDigit(c) == c \in 48..57

RECURSIVE RunEnd(_, _, _)
RunEnd(s, i, dg) ==
    IF i <= Len(s) /\ IsDigit(s[i]) = dg THEN RunEnd(s, i + 1, dg) ELSE i

RECURSIVE Atoi(_)
Atoi(s) == IF s = <<>> THEN 0 ELSE 10 * Atoi(SubSeq(s, 1, Len(s) - 1)) + (s[Len(s)] - 48)

\* naturalLess: runs of digits compare as numbers, other runs as strings
RECURSIVE naturalLess(_, _)
naturalLess(s1, s2) ==
    IF s1 = <<>> THEN s2 # <<>>
    ELSE IF s2 = <<>> THEN FALSE
    ELSE LET d1 == IsDigit(s1[1])
             d2 == IsDigit(s2[1])
             e1 == RunEnd(s1, 1, d1)
             e2 == RunEnd(s2, 1, d2)
             c1 == SubSeq(s1, 1, e1 - 1)
             c2 == SubSeq(s2, 1, e2 - 1)
         IN  IF c1 = c2
             THEN naturalLess(SubSeq(s1, e1, Len(s1)), SubSeq(s2, e2, Len(s2)))
             ELSE IF d1 /\ d2 THEN Atoi(c1) < Atoi(c2)
             ELSE StrLess(c1, c2)

(***************************************************************************)
(* Paths.                                                                   *)
(***************************************************************************)
Root == <<>>
\* the empty path "", the zero value of file.path, and ".", which is filepath.Dir("")
NoPath == << <<>> >>
DotPath == << <<46>> >>
\* isRoot(name): name == "/"; filepath.Base("/") is "/" (byte 47)
Slash == <<47>>
isRoot(name) == name = Slash
\* filepath.Dir, filepath.Base, filepath.Join on cleaned absolute paths and on ""
Dir(p) == IF p = Root THEN Root ELSE IF p = NoPath THEN DotPath ELSE SubSeq(p, 1, Len(p) - 1)
Base(p) == IF p = Root THEN Slash ELSE IF p = NoPath THEN <<46>> ELSE p[Len(p)]
Join(p, name) == Append(p, name)

(***************************************************************************)
(* Files and the options.                                                   *)
(***************************************************************************)
\* type file: Name(), IsDir(), Size(), ModTime() of the embedded os.FileInfo, and
\* path, which readdir sets to filepath.Join(path, filename)
FileAt(dirpath, n, d, s, t) ==
    [name |-> n, isDir |-> d, size |-> s, time |-> t, path |-> Join(dirpath, n)]
\* an entry of the root directory
File(n, d, s, t) == FileAt(Root, n, d, s, t)

SortKeys == {"natural", "name", "size", "time"}

Opts(sortby, reverse, dirfirst, hidden, scrolloff, wrapscan, ignorecase, smartcase, globsearch) ==
    [sortby |-> sortby, reverse |-> reverse, dirfirst |-> dirfirst, hidden |-> hidden,
     scrolloff |-> scrolloff, wrapscan |-> wrapscan, ignorecase |-> ignorecase,
     smartcase |-> smartcase, globsearch |-> globsearch]

(***************************************************************************)
(* sortFilesStable: sort.Stable, which for fewer than 20 elements is one    *)
(* insertion sort calling less on positions of the array being sorted.      *)
(***************************************************************************)
Swap(files, i, j) == [files EXCEPT ![i] = files[j], ![j] = files[i]]

\* lessHidden with the last test on the wrong index
lessHiddenSlip(files, i, j) ==
    IF files[i].name[1] = 46 /\ files[j].name[1] = 46
    THEN i < j
    ELSE files[j].name[1] = 46

\* the comparison of the hidden pass (dir.sort, !gOpts.hidden)
lessHidden(files, i, j) ==
    IF files[i].name[1] = 46 /\ files[j].name[1] = 46
    THEN i < j
    ELSE files[i].name[1] = 46

\* the comparison of the dirfirst pass
lessDirfirst(files, i, j) ==
    IF files[i].isDir = files[j].isDir
    THEN i < j
    ELSE files[i].isDir

\* the comparison closures of dir.sort, by pass
Less(kind, files, i, j) ==
    CASE kind = "natural" -> naturalLess(ToLower(files[i].name), ToLower(files[j].name))
      [] kind = "name" -> StrLess(ToLower(files[i].name), ToLower(files[j].name))
      [] kind = "size" -> files[i].size < files[j].size
      [] kind = "time" -> files[i].time < files[j].time
      [] kind = "dirfirst" -> lessDirfirst(files, i, j)
      [] kind = "hidden" -> lessHidden(files, i, j)

\* insertionSort's inner loop: for j := i; j > a && Less(j, j-1); j-- { Swap(j, j-1) }
RECURSIVE Sink(_, _, _)
Sink(files, kind, j) ==
    IF j > 1 /\ Less(kind, files, j, j - 1)
    THEN Sink(Swap(files, j, j - 1), kind, j - 1)
    ELSE files

RECURSIVE InsertionSort(_, _, _)
InsertionSort(files, kind, i) ==
    IF i > Len(files) THEN files
    ELSE InsertionSort(Sink(files, kind, i), kind, i + 1)

\* (the one-element set has TLC evaluate the slice once)
sortFilesStable(files, kind) ==
    CHOOSE sorted \in { InsertionSort(fs, kind, 2) : fs \in {files} } : TRUE

Reverse(s) == [i \in DOMAIN s |-> s[Len(s) + 1 - i]]

(***************************************************************************)
(* type dir.  loadTime is 0 for the zero time of a placeholder, 1 once set. *)
(***************************************************************************)
DirObj(loading, loadTime, ind, pos, fi, all) ==
    [loading |-> loading, loadTime |-> loadTime, ind |-> ind, pos |-> pos,
     fi |-> fi, all |-> all]

\* the index (1-based) of the first entry of fi that is not hidden, 0 if none
FirstShown(fi) ==
    IF \E i \in DOMAIN fi : fi[i].name[1] # 46
    THEN CHOOSE i \in DOMAIN fi :
            /\ fi[i].name[1] # 46
            /\ \A k \in 1..(i - 1) : fi[k].name[1] = 46
    ELSE 0

\* dir.sort: fi and all share one array, which every pass permutes in place
dir_sort(d, o) ==
    LET s1 == IF o.sortby \in SortKeys THEN sortFilesStable(d.all, o.sortby) ELSE d.all
        s2 == IF o.reverse THEN Reverse(s1) ELSE s1
        s3 == IF o.dirfirst THEN sortFilesStable(s2, "dirfirst") ELSE s2
        s4 == sortFilesStable(s3, "hidden")
        i == FirstShown(s4)
    IN  IF o.hidden THEN [d EXCEPT !.fi = s3, !.all = s3]
        ELSE [d EXCEPT !.all = s4,
                       !.fi = IF i = 0 THEN <<>> ELSE SubSeq(s4, i, Len(s4))]

\* dir.name; the index is out of range (a panic) when NameOK fails
NameOK(d) == Len(d.fi) = 0 \/ (d.ind >= 0 /\ d.ind < Len(d.fi))
dir_name(d) == IF Len(d.fi) = 0 THEN <<>> ELSE d.fi[d.ind + 1].name

\* the index (0-based) dir.find's loop stops at, or ind when no entry has the name
FindIndex(fi, name, ind) ==
    IF \E i \in DOMAIN fi : fi[i].name = name
    THEN (CHOOSE i \in DOMAIN fi :
            /\ fi[i].name = name
            /\ \A k \in 1..(i - 1) : fi[k].name # name) - 1
    ELSE ind

\* dir.find without the loop that looks for the name
dir_findNoSearch(d, name, h, o) ==
    IF Len(d.fi) = 0 THEN [d EXCEPT !.ind = 0, !.pos = 0]
    ELSE LET i0 == Min(d.ind, Len(d.fi) - 1)
             edge == Min(o.scrolloff, Len(d.fi) - i0 - 1)
         IN  [d EXCEPT !.ind = i0, !.pos = Min(i0, h - edge - 1)]

\* dir.find; fi[min(ind, len-1)] is out of range (a panic) when FindOK fails
FindOK(d) == Len(d.fi) = 0 \/ d.ind >= 0
dir_find(d, name, h, o) ==
    IF Len(d.fi) = 0 THEN [d EXCEPT !.ind = 0, !.pos = 0]
    ELSE LET i0 == Min(d.ind, Len(d.fi) - 1)
             i1 == IF d.fi[i0 + 1].name # name THEN FindIndex(d.fi, name, i0) ELSE i0
             edge == Min(o.scrolloff, Len(d.fi) - i1 - 1)
         IN  [d EXCEPT !.ind = i1, !.pos = Min(i1, h - edge - 1)]

(***************************************************************************)
(* Inputs: the entries a scan can return.  Pool holds names that tie under  *)
(* ToLower ("b", "B"), sizes and times that tie, hidden names, and names    *)
(* with numbers ("a2", "a10").                                              *)
(***************************************************************************)
Pool ==
    { File(<<98>>, FALSE, 1, 1),          \* b
      File(<<66>>, TRUE, 2, 2),           \* B/
      File(<<97, 50>>, FALSE, 1, 2),      \* a2
      File(<<97, 49, 48>>, TRUE, 2, 1),   \* a10/
      File(<<46, 104>>, FALSE, 1, 1),     \* .h
      File(<<46, 100>>, TRUE, 2, 2) }     \* .d/

\* readdir's results: the sequences of distinct entries, in any order
Scans(S, n) ==
    UNION { { s \in [1..k -> S] : \A i, j \in 1..k : i # j => s[i] # s[j] } : k \in 0..n }

\* newDir: the listing of a finished scan
newDir(scan) == DirObj(FALSE, 1, 0, 0, scan, scan)

SortOpts ==
    { Opts(k, r, df, hd, 0, TRUE, FALSE, FALSE, FALSE) :
        k \in SortKeys, r \in BOOLEAN, df \in BOOLEAN, hd \in BOOLEAN }

\* the record of the last call; aux is 0 unless the operation says otherwise
RetAux(op, err, arg, aux) == [op |-> op, err |-> err, arg |-> arg, aux |-> aux]
Ret(op, err, arg) == RetAux(op, err, arg, 0)

EmptyFn == [x \in {} |-> 0]

\* the pending-operation record: the file list and the mode
Pending(list, copy) == [list |-> list, copy |-> copy]
NoPending == Pending(<<>>, FALSE)

\* newNav's empty maps, an untouched file system, an empty store, no preview worker
ExtraInit ==
    /\ removed = {}
    /\ store = NoPending
    /\ saves = EmptyFn
    /\ regCache = EmptyFn
    /\ previews = <<>>

(***************************************************************************)
(* SpecSort: dir.sort applied, again and again, to a scanned listing.       *)
(***************************************************************************)
InitSort ==
    /\ dirs = <<Root>>
    /\ \E scan \in Scans(Pool, MaxFiles) : dirCache = (Root :> newDir(scan))
    /\ gOpts \in SortOpts
    /\ inflight = EmptyFn
    /\ cwd = Root
    /\ marks = EmptyFn
    /\ markInd = 0
    /\ height = 1
    /\ search = <<>>
    /\ ret = Ret("init", FALSE, Root)
    /\ crashed = FALSE
    /\ markHist = <<>>
    /\ ExtraInit
    /\ scanned = dirCache[Root].all

\* d.sort() on the listing
DirSortStep ==
    /\ dirCache' = [p \in DOMAIN dirCache |-> dir_sort(dirCache[p], gOpts)]
    /\ ret' = Ret("dir.sort", FALSE, Root)
    /\ UNCHANGED <<dirs, inflight, cwd, marks, markInd, height, search, gOpts,
                   crashed, markHist, Extra>>

NextSort == DirSortStep

SpecSort == InitSort /\ [][NextSort]_vars

\* the configuration changes between two sorts: gOpts is assigned elsewhere
SetSortOpts(o) ==
    /\ o # gOpts
    /\ gOpts' = o
    /\ ret' = Ret("set", FALSE, Root)
    /\ UNCHANGED <<dirs, dirCache, inflight, cwd, marks, markInd, height, search,
                   crashed, markHist, Extra>>

\* SpecResort: dir.sort calls on one scanned listing with configuration changes
\* between them
NextResort ==
    \/ DirSortStep
    \/ \E o \in SortOpts : SetSortOpts(o)

SpecResort == InitSort /\ [][NextResort]_vars

NotDot(f) == f.name[1] # 46

\* C7: dir.sort() called a second time, entries and configuration unchanged,
\* leaves the visible order of the first call.
C7_SortIdempotent ==
    [][(ret.op = "dir.sort" /\ ret'.op = "dir.sort")
        => dirCache'[Root].fi = dirCache[Root].fi]_vars

\* C8: after dir.sort() with hidden disabled, visible is exactly the entries of
\* all whose name does not begin with a dot, in the order they have in all.
C8_HiddenFiltered ==
    (ret.op = "dir.sort" /\ ~gOpts.hidden) =>
        dirCache[Root].fi = SelectSeq(dirCache[Root].all, NotDot)

\* a sort by size with hidden disabled over hidden and shown entries
C8_Witness ==
    /\ ret.op = "dir.sort"
    /\ ~gOpts.hidden
    /\ gOpts.sortby = "size"
    /\ Len(dirCache[Root].fi) = 2
    /\ Len(dirCache[Root].all) = 3

(***************************************************************************)
(* Cursor movement and search on the current directory.                     *)
(***************************************************************************)
top_ == dirs[Len(dirs)]
\* nav.currDir
currDir == dirCache[top_]

\* nav.up, on the current directory
up(d, dist, o) ==
    IF d.ind = 0 THEN d
    ELSE LET ind1 == Max(0, d.ind - dist)
             edge == Min(o.scrolloff, ind1)
         IN  [d EXCEPT !.ind = ind1, !.pos = Max(d.pos - dist, edge)]

\* nav.down, on the current directory
down(d, dist, h, o) ==
    LET maxind == Len(d.fi) - 1
    IN  IF d.ind >= maxind THEN d
        ELSE LET ind1 == Min(maxind, d.ind + dist)
                 edge0 == Min(o.scrolloff, maxind - ind1)
                 edge == Min(edge0, (h \div 2) + (h % 2) - 1)
                 pos1 == Min(d.pos + dist, h - edge - 1)
             IN  [d EXCEPT !.ind = ind1, !.pos = Min(pos1, maxind)]

\* nav.top
top(d) == [d EXCEPT !.ind = 0, !.pos = 0]

\* nav.bot
bot(d, h) == [d EXCEPT !.ind = Len(d.fi) - 1, !.pos = Min(Len(d.fi) - 1, h - 1)]

\* filepath.Match for patterns of literal bytes, '*' (42) and '?' (63)
RECURSIVE GlobMatch(_, _)
GlobMatch(p, n) ==
    IF p = <<>> THEN n = <<>>
    ELSE IF p[1] = 42 THEN GlobMatch(Tail(p), n) \/ (n # <<>> /\ GlobMatch(p, Tail(n)))
    ELSE IF p[1] = 63 THEN n # <<>> /\ GlobMatch(Tail(p), Tail(n))
    ELSE n # <<>> /\ n[1] = p[1] /\ GlobMatch(Tail(p), Tail(n))

\* a '[' (91) that no ']' (93) closes is filepath.ErrBadPattern
BadPattern(p) == (\E i \in DOMAIN p : p[i] = 91) /\ ~(\E i \in DOMAIN p : p[i] = 93)

\* match: "yes", "no", or "err" for the error of filepath.Match
match(pattern, name, o) ==
    LET lpattern == ToLower(pattern)
        fold == o.ignorecase /\ (~o.smartcase \/ lpattern = pattern)
        p == IF fold THEN lpattern ELSE pattern
        n == IF fold THEN ToLower(name) ELSE name
    IN  IF o.globsearch
        THEN IF BadPattern(p) THEN "err" ELSE IF GlobMatch(p, n) THEN "yes" ELSE "no"
        ELSE IF Contains(n, p) THEN "yes" ELSE "no"

Found(i) == [kind |-> "found", i |-> i]
NoMatch == [kind |-> "none", i |-> 0]
MatchErr == [kind |-> "err", i |-> 0]

\* for i := lo; i < hi; i++ { match(nav.search, fi[i].Name()) }: the first match
RECURSIVE ScanUp(_, _, _, _, _)
ScanUp(fi, lo, hi, pattern, o) ==
    IF lo >= hi THEN NoMatch
    ELSE LET m == match(pattern, fi[lo + 1].name, o)
         IN  IF m = "err" THEN MatchErr
             ELSE IF m = "yes" THEN Found(lo)
             ELSE ScanUp(fi, lo + 1, hi, pattern, o)

\* for i := hi; i >= lo; i-- { match(nav.search, fi[i].Name()) }: the first match
RECURSIVE ScanDown(_, _, _, _, _)
ScanDown(fi, hi, lo, pattern, o) ==
    IF hi < lo THEN NoMatch
    ELSE LET m == match(pattern, fi[hi + 1].name, o)
         IN  IF m = "err" THEN MatchErr
             ELSE IF m = "yes" THEN Found(hi)
             ELSE ScanDown(fi, hi - 1, lo, pattern, o)

SearchResult(d, err) == [d |-> d, err |-> err]

\* searchNext with its first loop starting on the cursor
searchNextFromCursor(d, pattern, h, o) ==
    LET fwd == ScanUp(d.fi, d.ind, Len(d.fi), pattern, o)
        wrap == ScanUp(d.fi, 0, d.ind, pattern, o)
    IN  IF fwd.kind = "err" THEN SearchResult(d, TRUE)
        ELSE IF fwd.kind = "found" THEN SearchResult(down(d, fwd.i - d.ind, h, o), FALSE)
        ELSE IF ~o.wrapscan THEN SearchResult(d, FALSE)
        ELSE IF wrap.kind = "err" THEN SearchResult(d, TRUE)
        ELSE IF wrap.kind = "found" THEN SearchResult(up(d, d.ind - wrap.i, o), FALSE)
        ELSE SearchResult(d, FALSE)

\* nav.searchNext, on the current directory
searchNext(d, pattern, h, o) ==
    LET fwd == ScanUp(d.fi, d.ind + 1, Len(d.fi), pattern, o)
        wrap == ScanUp(d.fi, 0, d.ind, pattern, o)
    IN  IF fwd.kind = "err" THEN SearchResult(d, TRUE)
        ELSE IF fwd.kind = "found" THEN SearchResult(down(d, fwd.i - d.ind, h, o), FALSE)
        ELSE IF ~o.wrapscan THEN SearchResult(d, FALSE)
        ELSE IF wrap.kind = "err" THEN SearchResult(d, TRUE)
        ELSE IF wrap.kind = "found" THEN SearchResult(up(d, d.ind - wrap.i, o), FALSE)
        ELSE SearchResult(d, FALSE)

\* nav.searchPrev, on the current directory
searchPrev(d, pattern, h, o) ==
    LET back == ScanDown(d.fi, d.ind - 1, 0, pattern, o)
        wrap == ScanDown(d.fi, Len(d.fi) - 1, d.ind + 1, pattern, o)
    IN  IF back.kind = "err" THEN SearchResult(d, TRUE)
        ELSE IF back.kind = "found" THEN SearchResult(up(d, d.ind - back.i, o), FALSE)
        ELSE IF ~o.wrapscan THEN SearchResult(d, FALSE)
        ELSE IF wrap.kind = "err" THEN SearchResult(d, TRUE)
        ELSE IF wrap.kind = "found" THEN SearchResult(down(d, wrap.i - d.ind, h, o), FALSE)
        ELSE SearchResult(d, FALSE)

\* nav.sort on one listing: name := d.name(); d.sort(); d.find(name, nav.height)
SortOK(d, o) == NameOK(d) /\ FindOK(dir_sort(d, o))
sortKeepName(d, h, o) == dir_find(dir_sort(d, o), dir_name(d), h, o)

(***************************************************************************)
(* The owner's cursor operations as actions.  ret.aux of a search is the    *)
(* cursor index before the call.                                            *)
(***************************************************************************)
NavOnly == <<dirs, inflight, cwd, marks, markInd, height, search, gOpts, crashed, markHist,
             Extra>>

SetCurr(d) == dirCache' = [dirCache EXCEPT ![top_] = d]

nav_up(dist) ==
    /\ ~crashed
    /\ SetCurr(up(currDir, dist, gOpts))
    /\ ret' = Ret("up", FALSE, Root)
    /\ UNCHANGED NavOnly

nav_down(dist) ==
    /\ ~crashed
    /\ SetCurr(down(currDir, dist, height, gOpts))
    /\ ret' = Ret("down", FALSE, Root)
    /\ UNCHANGED NavOnly

nav_top ==
    /\ ~crashed
    /\ SetCurr(top(currDir))
    /\ ret' = Ret("top", FALSE, Root)
    /\ UNCHANGED NavOnly

nav_bot ==
    /\ ~crashed
    /\ SetCurr(bot(currDir, height))
    /\ ret' = Ret("bot", FALSE, Root)
    /\ UNCHANGED NavOnly

nav_searchNext ==
    /\ ~crashed
    /\ LET r == searchNext(currDir, search, height, gOpts)
       IN  /\ SetCurr(r.d)
           /\ ret' = RetAux("searchNext", r.err, Root, currDir.ind)
    /\ UNCHANGED NavOnly

nav_searchPrev ==
    /\ ~crashed
    /\ LET r == searchPrev(currDir, search, height, gOpts)
       IN  /\ SetCurr(r.d)
           /\ ret' = RetAux("searchPrev", r.err, Root, currDir.ind)
    /\ UNCHANGED NavOnly

\* nav.sort: every listing of the stack; an index out of range panics
nav_sort ==
    /\ ~crashed
    /\ IF \A i \in DOMAIN dirs : SortOK(dirCache[dirs[i]], gOpts)
       THEN /\ dirCache' = [p \in DOMAIN dirCache |->
                              IF \E i \in DOMAIN dirs : dirs[i] = p
                              THEN sortKeepName(dirCache[p], height, gOpts)
                              ELSE dirCache[p]]
            /\ crashed' = FALSE
       ELSE /\ crashed' = TRUE
            /\ UNCHANGED dirCache
    /\ ret' = Ret("sort", FALSE, Root)
    /\ UNCHANGED <<dirs, inflight, cwd, marks, markInd, height, search, gOpts, markHist,
                   Extra>>

\* d.find(name, nav.height) on the current directory, as getDirs and position call it
DirFindStep(name) ==
    /\ ~crashed
    /\ FindOK(currDir)
    /\ SetCurr(dir_find(currDir, name, height, gOpts))
    /\ ret' = Ret("dir.find", FALSE, Root)
    /\ UNCHANGED NavOnly

(***************************************************************************)
(* SpecCursor: the cursor operations on one loaded listing.                 *)
(***************************************************************************)
CursorPool ==
    { File(<<97>>, FALSE, 1, 1),        \* a
      File(<<97, 98>>, FALSE, 1, 1),    \* ab
      File(<<66>>, TRUE, 1, 1),         \* B/
      File(<<46, 104>>, FALSE, 1, 1) }  \* .h

\* nav.search: "a", "B", "a*", "["
Patterns == { <<97>>, <<66>>, <<97, 42>>, <<91>> }

Names == { f.name : f \in CursorPool } \cup { <<>> }

CursorOpts ==
    { Opts("name", FALSE, FALSE, hd, so, ws, ic, sc, gs) :
        hd \in BOOLEAN, so \in 0..MaxScrolloff, ws \in BOOLEAN,
        ic \in BOOLEAN, sc \in BOOLEAN, gs \in BOOLEAN }

\* the listing a scan worker delivers: newDir, sort, ind = pos = 0
Loaded(scan, o) == [dir_sort(newDir(scan), o) EXCEPT !.ind = 0, !.pos = 0]

InitCursor ==
    /\ dirs = <<Root>>
    /\ gOpts \in CursorOpts
    /\ \E scan \in Scans(CursorPool, MaxFiles) : dirCache = (Root :> Loaded(scan, gOpts))
    /\ height \in 1..MaxHeight
    /\ search \in Patterns
    /\ inflight = EmptyFn
    /\ cwd = Root
    /\ marks = EmptyFn
    /\ markInd = 0
    /\ ret = Ret("init", FALSE, Root)
    /\ crashed = FALSE
    /\ markHist = <<>>
    /\ ExtraInit
    /\ scanned = <<>>

NextCursor ==
    \/ \E dist \in 1..MaxDist : nav_up(dist)
    \/ \E dist \in 1..MaxDist : nav_down(dist)
    \/ nav_top
    \/ nav_bot
    \/ nav_sort
    \/ nav_searchNext
    \/ nav_searchPrev
    \/ \E name \in Names : DirFindStep(name)

SpecCursor == InitCursor /\ [][NextCursor]_vars

\* C4: every listing of the stack has 0 <= ind < len(visible), or ind = 0 and
\* pos = 0 when visible is empty.
C4_CursorInRange ==
    \A i \in DOMAIN dirs :
        LET d == dirCache[dirs[i]]
        IN  IF Len(d.fi) > 0
            THEN 0 <= d.ind /\ d.ind < Len(d.fi)
            ELSE d.ind = 0 /\ d.pos = 0

\* C5: every listing of the stack has 0 <= pos <= min(ind, height-1).
C5_ScrollInRange ==
    \A i \in DOMAIN dirs :
        LET d == dirCache[dirs[i]]
        IN  0 <= d.pos /\ d.pos <= Min(d.ind, height - 1)

MatchAt(d, i) == match(search, d.fi[i + 1].name, gOpts) = "yes"
MatchesAfter(d) == { i \in (d.ind + 1)..(Len(d.fi) - 1) : MatchAt(d, i) }
MatchesBefore(d) == { i \in 0..(d.ind - 1) : MatchAt(d, i) }
SetMin(S) == CHOOSE x \in S : \A y \in S : x <= y
SetMax(S) == CHOOSE x \in S : \A y \in S : x >= y

\* C10: searchNext puts the cursor on the first match after it, else (wrapscan) on
\* the first match before it, else leaves ind and pos; searchPrev mirrors it.
C10_Search ==
    [][/\ ret'.op = "searchNext" =>
            IF MatchesAfter(currDir) # {}
            THEN currDir'.ind = SetMin(MatchesAfter(currDir))
            ELSE IF gOpts.wrapscan /\ MatchesBefore(currDir) # {}
            THEN currDir'.ind = SetMin(MatchesBefore(currDir))
            ELSE currDir'.ind = currDir.ind /\ currDir'.pos = currDir.pos
       /\ ret'.op = "searchPrev" =>
            IF MatchesBefore(currDir) # {}
            THEN currDir'.ind = SetMax(MatchesBefore(currDir))
            ELSE IF gOpts.wrapscan /\ MatchesAfter(currDir) # {}
            THEN currDir'.ind = SetMax(MatchesAfter(currDir))
            ELSE currDir'.ind = currDir.ind /\ currDir'.pos = currDir.pos]_vars

\* a searchNext that wrapped from the last of three entries to the first
C10_Witness ==
    /\ ret.op = "searchNext"
    /\ ret.aux = 2
    /\ gOpts.wrapscan
    /\ Len(currDir.fi) = 3
    /\ currDir.ind = 0

(***************************************************************************)
(* The mark set.                                                            *)
(***************************************************************************)
MarkState(m, mi) == [marks |-> m, markInd |-> mi]

\* toggleMark resetting the counter on every removal
toggleMarkResetAlways(m, mi, path) ==
    IF path \in DOMAIN m
    THEN MarkState(Without(m, path), 0)
    ELSE MarkState(With(m, path, mi), mi + 1)

\* nav.toggleMark
toggleMark(m, mi, path) ==
    IF path \in DOMAIN m
    THEN MarkState(Without(m, path), IF DOMAIN m = {path} THEN 0 ELSE mi)
    ELSE MarkState(With(m, path, mi), mi + 1)

\* nav.currMarks: the paths, in map iteration order, sorted by sort.Sort on their
\* indices; every order sort.Sort can leave them in
currMarks(m) ==
    { s \in [1..Cardinality(DOMAIN m) -> DOMAIN m] :
        /\ \A i, j \in DOMAIN s : i # j => s[i] # s[j]
        /\ \A i, j \in DOMAIN s : i < j => m[s[i]] <= m[s[j]] }

RemoveFrom(s, x) == SelectSeq(s, LAMBDA y : y # x)

\* the paths that are marked: /a, /b, /c
MarkPaths == { << <<97>> >>, << <<98>> >>, << <<99>> >> }

nav_toggleMark(path) ==
    /\ ~crashed
    /\ path \in DOMAIN marks \/ markInd < MaxMarkInd
    /\ LET r == toggleMark(marks, markInd, path)
       IN  /\ marks' = r.marks
           /\ markInd' = r.markInd
    /\ markHist' = IF path \in DOMAIN marks
                   THEN RemoveFrom(markHist, path)
                   ELSE Append(markHist, path)
    /\ ret' = Ret("toggleMark", FALSE, path)
    /\ UNCHANGED <<dirs, dirCache, inflight, cwd, height, search, gOpts, crashed, Extra>>

nav_unmark ==
    /\ ~crashed
    /\ marks' = EmptyFn
    /\ markInd' = 0
    /\ markHist' = <<>>
    /\ ret' = Ret("unmark", FALSE, Root)
    /\ UNCHANGED <<dirs, dirCache, inflight, cwd, height, search, gOpts, crashed, Extra>>

(***************************************************************************)
(* SpecMarks: toggleMark and unmark on the mark set of a new nav.           *)
(***************************************************************************)
InitMarks ==
    /\ dirs = <<Root>>
    /\ dirCache = (Root :> newDir(<<>>))
    /\ gOpts = Opts("name", FALSE, FALSE, FALSE, 0, TRUE, FALSE, FALSE, FALSE)
    /\ height = 1
    /\ search = <<>>
    /\ inflight = EmptyFn
    /\ cwd = Root
    /\ marks = EmptyFn
    /\ markInd = 0
    /\ ret = Ret("init", FALSE, Root)
    /\ crashed = FALSE
    /\ markHist = <<>>
    /\ ExtraInit
    /\ scanned = <<>>

NextMarks ==
    \/ \E path \in MarkPaths : nav_toggleMark(path)
    \/ nav_unmark

SpecMarks == InitMarks /\ [][NextMarks]_vars

\* C9: currMarks() returns exactly the marked paths, in the order of each path's
\* most recent add.
C9_MarksOrdered == currMarks(marks) = {markHist}

\* a, b, c toggled, then b removed and added again: [a, c, b]
C9_Witness ==
    /\ markHist = << << <<97>> >>, << <<99>> >>, << <<98>> >> >>
    /\ currMarks(marks) = {markHist}
    /\ markInd = 4

(***************************************************************************)
(* The file system of the navigation model:                                 *)
(*     /      holds f (a regular file) and a/                               *)
(*     /a     holds b/                                                      *)
(*     /a/b   is empty                                                      *)
(* /x does not exist.                                                       *)
(***************************************************************************)
PA == << <<97>> >>
PAB == << <<97>>, <<98>> >>
PF == << <<102>> >>
PX == << <<120>> >>

\* the path, or a directory above it, was removed
Gone(p) == \E k \in 1..Len(p) : SubSeq(p, 1, k) \in removed

IsDirPath(p) == p \in {Root, PA, PAB} /\ ~Gone(p)
\* os.Stat(path) succeeds
Exists(p) == IsDirPath(p) \/ (p = PF /\ ~Gone(p))

\* readdir(path): the entries in directory order, without those that are gone; of
\* a regular file or a missing path the error is logged and the result is nil
readdir(p) ==
    CASE p = Root /\ IsDirPath(p) ->
            SelectSeq(<< FileAt(Root, <<102>>, FALSE, 1, 1), FileAt(Root, <<97>>, TRUE, 1, 1) >>,
                      LAMBDA f : ~Gone(f.path))
      [] p = PA /\ IsDirPath(p) ->
            SelectSeq(<< FileAt(PA, <<98>>, TRUE, 1, 1) >>, LAMBDA f : ~Gone(f.path))
      [] OTHER -> <<>>

\* &file{FileInfo: lstat}: the entry nav.find appends, whose path is ""
LstatFile(p) ==
    [name |-> Base(p), isDir |-> IsDirPath(p), size |-> 1, time |-> 1, path |-> NoPath]

\* os.Chdir(path): whether it succeeds, and the working directory after it
ChdirOK(p) == IsDirPath(p) \/ p = DotPath
Chdir(p, wd) == IF p = DotPath THEN wd ELSE p

\* the paths a listing can be cached for
PathsU == {Root, PA, PAB, PF, NoPath}
\* the arguments of loadDir: the directories the preview pane asks for
LoadPaths == {Root, PA}
\* the arguments of cd and selectPath
CdPaths == {Root, PA, PAB, PF, PX}

MainOpts == Opts("natural", FALSE, TRUE, FALSE, 0, TRUE, FALSE, FALSE, FALSE)

\* d := &dir{loading: true, path: path}
Placeholder == DirObj(TRUE, 0, 0, 0, <<>>, <<>>)

\* the worker of loadDir and of renew: newDir(path), sort
scanWorker(p, o) == Loaded(readdir(p), o)

RECURSIVE SumOver(_, _)
SumOver(f, S) ==
    IF S = {} THEN 0
    ELSE LET x == CHOOSE y \in S : TRUE IN f[x] + SumOver(f, S \ {x})
Total(fl) == SumOver(fl, DOMAIN fl)

LoadState(cache, fl) == [cache |-> cache, inflight |-> fl]

\* loadDir whose new worker takes the place of the path's earlier one
loadDirOneWorker(cache, fl, path) ==
    IF path \in DOMAIN cache
    THEN LoadState(cache, fl)
    ELSE LoadState(With(cache, path, Placeholder), [fl EXCEPT ![path] = 1])

\* loadDir without the look-up in the cache
loadDirNoLookup(cache, fl, path) ==
    LoadState(With(cache, path, Placeholder), [fl EXCEPT ![path] = @ + 1])

\* nav.loadDir: the cached listing, or a placeholder and a worker
loadDir(cache, fl, path) ==
    IF path \in DOMAIN cache
    THEN LoadState(cache, fl)
    ELSE LoadState(With(cache, path, Placeholder), [fl EXCEPT ![path] = @ + 1])

\* nav.getDirs: the loop from wd up to the root; acc is dirs, already reversed
RECURSIVE getDirsLoop(_, _, _, _, _, _, _)
getDirsLoop(cache, fl, curr, base, acc, h, o) ==
    IF isRoot(base)
    THEN [cache |-> cache, inflight |-> fl, dirs |-> acc, ok |-> TRUE]
    ELSE LET l == loadDir(cache, fl, curr)
             d == l.cache[curr]
         IN  IF ~FindOK(d)
             THEN [cache |-> l.cache, inflight |-> l.inflight, dirs |-> acc, ok |-> FALSE]
             ELSE getDirsLoop([l.cache EXCEPT ![curr] = dir_find(d, base, h, o)],
                              l.inflight, Dir(curr), Base(curr), <<curr>> \o acc, h, o)

getDirs(cache, fl, wd, h, o) == getDirsLoop(cache, fl, wd, <<>>, <<>>, h, o)

\* the workers getDirs(wd) spawns
Ancestors(wd) == { SubSeq(wd, 1, k) : k \in 0..Len(wd) }
Uncached(cache, wd) == Cardinality({ a \in Ancestors(wd) : a \notin DOMAIN cache })

\* nav.currFile: its error, and whether last.fi[last.ind] is in range
NoCurrFile(d) == Len(d.fi) = 0
CurrOK(d) == d.ind >= 0 /\ d.ind < Len(d.fi)

Crash(op) ==
    /\ crashed' = TRUE
    /\ ret' = Ret(op, FALSE, Root)
    /\ UNCHANGED <<dirs, dirCache, inflight, cwd, marks, markInd, height, search,
                   gOpts, markHist, Extra>>

Rest == <<marks, markInd, height, search, gOpts, markHist, Extra>>

(***************************************************************************)
(* The owner's navigation operations.  ret.aux of loadDir is 1 when the     *)
(* path was cached; ret.arg is the path of a loadDir and of a receive.      *)
(***************************************************************************)
nav_loadDir(path) ==
    /\ ~crashed
    /\ path \in DOMAIN dirCache \/ Total(inflight) < MaxInflight
    /\ LET l == loadDir(dirCache, inflight, path)
       IN  /\ dirCache' = l.cache
           /\ inflight' = l.inflight
    /\ ret' = RetAux("loadDir", FALSE, path, IF path \in DOMAIN dirCache THEN 1 ELSE 0)
    /\ UNCHANGED <<dirs, cwd, crashed>>
    /\ UNCHANGED Rest

nav_open ==
    /\ ~crashed
    /\ IF NoCurrFile(currDir)
       THEN /\ ret' = Ret("open", TRUE, Root)
            /\ UNCHANGED <<dirs, dirCache, inflight, cwd, crashed>>
            /\ UNCHANGED Rest
       ELSE IF ~CurrOK(currDir) THEN Crash("open")
       ELSE LET path == currDir.fi[currDir.ind + 1].path
                l == loadDir(dirCache, inflight, path)
            IN  /\ path \in DOMAIN dirCache \/ Total(inflight) < MaxInflight
                /\ dirCache' = l.cache
                /\ inflight' = l.inflight
                /\ dirs' = Append(dirs, path)
                /\ cwd' = IF ChdirOK(path) THEN Chdir(path, cwd) ELSE cwd
                /\ ret' = Ret("open", ~ChdirOK(path), Root)
                /\ UNCHANGED crashed
                /\ UNCHANGED Rest

nav_updir ==
    /\ ~crashed
    /\ IF Len(dirs) <= 1
       THEN /\ ret' = Ret("updir", FALSE, Root)
            /\ UNCHANGED <<dirs, cwd>>
       ELSE LET target == Dir(top_)
            IN  /\ dirs' = SubSeq(dirs, 1, Len(dirs) - 1)
                /\ cwd' = IF ChdirOK(target) THEN Chdir(target, cwd) ELSE cwd
                /\ ret' = Ret("updir", ~ChdirOK(target), Root)
    /\ UNCHANGED <<dirCache, inflight, crashed>>
    /\ UNCHANGED Rest

\* nav.cd, for a cleaned absolute wd
nav_cd(wd) ==
    /\ ~crashed
    /\ IF ~ChdirOK(wd)
       THEN /\ ret' = Ret("cd", TRUE, Root)
            /\ UNCHANGED <<dirs, dirCache, inflight, cwd, crashed>>
       ELSE LET g == getDirs(dirCache, inflight, wd, height, gOpts)
            IN  /\ Total(inflight) + Uncached(dirCache, wd) <= MaxInflight
                /\ cwd' = wd
                /\ dirCache' = g.cache
                /\ inflight' = g.inflight
                /\ dirs' = IF g.ok THEN g.dirs ELSE dirs
                /\ crashed' = ~g.ok
                /\ ret' = Ret("cd", FALSE, Root)
    /\ UNCHANGED Rest

\* nav.find (selectPath)
nav_find(path) ==
    /\ ~crashed
    /\ IF ~Exists(path) \/ ~ChdirOK(Dir(path))
       THEN /\ ret' = Ret("select", TRUE, Root)
            /\ UNCHANGED <<dirs, dirCache, inflight, cwd, crashed>>
       ELSE LET wd == Dir(path)
                g == getDirs(dirCache, inflight, wd, height, gOpts)
                last == g.cache[wd]
            IN  /\ Total(inflight) + Uncached(dirCache, wd) <= MaxInflight
                /\ g.ok /\ last.loading => Len(last.fi) < MaxAppend
                /\ cwd' = wd
                /\ inflight' = g.inflight
                /\ dirs' = IF g.ok THEN g.dirs ELSE dirs
                /\ crashed' = ~g.ok
                /\ dirCache' =
                     IF ~g.ok THEN g.cache
                     ELSE IF last.loading
                     THEN [g.cache EXCEPT ![wd].fi = Append(@, LstatFile(path))]
                     ELSE [g.cache EXCEPT ![wd] = dir_find(last, Base(path), height, gOpts)]
                /\ ret' = Ret("select", FALSE, Root)
    /\ UNCHANGED Rest

\* the pruning without the reset of the counter
pruneMarksKeepCounter(m, mi) ==
    MarkState([q \in { x \in DOMAIN m : Exists(x) } |-> m[q]], mi)

\* the end of nav.renew: the marks whose path no longer exists are deleted
pruneMarks(m, mi) ==
    LET kept == [q \in { x \in DOMAIN m : Exists(x) } |-> m[q]]
    IN  MarkState(kept, IF DOMAIN kept = {} THEN 0 ELSE mi)

\* nav.renew.  Each worker stats its directory (a nil FileInfo is dereferenced when
\* the stat fails) and reloads unless loadTime is after the directory's mtime:
\* always for a placeholder's zero loadTime, and when the directory was touched.
nav_renew(h) ==
    /\ ~crashed
    /\ LET onStack == { dirs[i] : i \in DOMAIN dirs }
           cache1 == [p \in onStack |-> dirCache[p]]
       IN  IF \E p \in onStack : ~Exists(p)
           THEN /\ crashed' = TRUE
                /\ dirCache' = cache1
                /\ UNCHANGED inflight
           ELSE \E touched \in SUBSET { p \in onStack : cache1[p].loadTime = 1 } :
                  LET reloads == { p \in onStack : cache1[p].loadTime = 0 } \cup touched
                  IN  /\ Total(inflight) + Cardinality(reloads) <= MaxInflight
                      /\ dirCache' = [p \in onStack |->
                                        IF p \in reloads
                                        THEN [cache1[p] EXCEPT !.loadTime = 1]
                                        ELSE cache1[p]]
                      /\ inflight' = [p \in DOMAIN inflight |->
                                        inflight[p] + (IF p \in reloads THEN 1 ELSE 0)]
                      /\ UNCHANGED crashed
    /\ height' = h
    /\ LET r == pruneMarks(marks, markInd)
       IN  /\ marks' = r.marks
           /\ markInd' = r.markInd
    /\ markHist' = SelectSeq(markHist, Exists)
    /\ ret' = Ret("renew", FALSE, Root)
    /\ UNCHANGED <<dirs, cwd, search, gOpts, Extra>>

\* nav.reload.  In a removed working directory os.Getwd fails and wd is "":
\* getDirs("") never reaches the root (filepath.Dir(".") is "."), its loop
\* allocates a listing per round until the runtime gives up.
nav_reload ==
    /\ ~crashed
    /\ IF ~NoCurrFile(currDir) /\ ~CurrOK(currDir) THEN Crash("reload")
       ELSE IF Gone(cwd) THEN Crash("reload")
       ELSE LET g == getDirs([x \in {} |-> Placeholder], inflight, cwd, height, gOpts)
                curr == currDir.fi[currDir.ind + 1]
            IN  /\ Total(inflight) + Len(cwd) + 1 <= MaxInflight
                /\ inflight' = g.inflight
                /\ dirs' = g.dirs
                /\ dirCache' = IF NoCurrFile(currDir) THEN g.cache
                               ELSE [g.cache EXCEPT ![cwd].fi = Append(@, curr)]
                /\ regCache' = EmptyFn
                /\ ret' = Ret("reload", FALSE, Root)
                /\ UNCHANGED <<cwd, crashed, marks, markInd, height, search, gOpts, markHist,
                               removed, store, saves, previews, scanned>>

\* the consumer of dirChan: the finished listing takes the cursor of the entry it
\* replaces and replaces it in the cache and on the stack
nav_deliver(p) ==
    /\ ~crashed
    /\ inflight[p] > 0
    /\ inflight' = [inflight EXCEPT ![p] = @ - 1]
    /\ \E nd \in {scanWorker(p, gOpts)} :
           IF p \notin DOMAIN dirCache
           THEN dirCache' = With(dirCache, p, nd) /\ UNCHANGED crashed
           ELSE IF ~NameOK(dirCache[p])
           THEN crashed' = TRUE /\ UNCHANGED dirCache
           ELSE /\ dirCache' = With(dirCache, p,
                                    dir_find(nd, dir_name(dirCache[p]), height, gOpts))
                /\ UNCHANGED crashed
    /\ ret' = Ret("deliver", FALSE, p)
    /\ UNCHANGED <<dirs, cwd>>
    /\ UNCHANGED Rest

\* the environment removes a directory and everything below it
fs_remove(p) ==
    /\ ~crashed
    /\ ~Gone(p)
    /\ removed' = removed \cup {p}
    /\ ret' = Ret("fs.remove", FALSE, Root)
    /\ UNCHANGED <<dirs, dirCache, inflight, cwd, marks, markInd, height, search, gOpts,
                   crashed, markHist, store, saves, regCache, previews, scanned>>

(***************************************************************************)
(* Spec: the navigation stack and the loader, from newNav on.               *)
(* SpecNoRebuild: the same without the operations that rebuild the cache.   *)
(***************************************************************************)
Init ==
    /\ height = MaxHeight
    /\ gOpts = MainOpts
    /\ \E wd \in {Root, PA} :
         LET g == getDirs([x \in {} |-> Placeholder], [p \in PathsU |-> 0], wd, height, gOpts)
         IN  /\ dirs = g.dirs
             /\ dirCache = g.cache
             /\ inflight = g.inflight
             /\ cwd = wd
    /\ marks = EmptyFn
    /\ markInd = 0
    /\ search = <<>>
    /\ ret = Ret("init", FALSE, Root)
    /\ crashed = FALSE
    /\ markHist = <<>>
    /\ ExtraInit
    /\ scanned = <<>>

NextNoRebuild ==
    \/ \E path \in LoadPaths : nav_loadDir(path)
    \/ nav_open
    \/ nav_updir
    \/ \E wd \in CdPaths : nav_cd(wd)
    \/ \E path \in CdPaths : nav_find(path)
    \/ \E path \in PathsU : nav_deliver(path)
    \/ nav_up(1)
    \/ nav_down(1)

Next ==
    \/ NextNoRebuild
    \/ nav_renew(height)
    \/ nav_reload

Spec == Init /\ [][Next]_vars

SpecNoRebuild == Init /\ [][NextNoRebuild]_vars

\* SpecLoads: the loader with a consumer of dirChan that keeps receiving and a
\* scheduler that runs every worker: a send that stays possible is received.
NextLoads ==
    \/ \E path \in LoadPaths : nav_loadDir(path)
    \/ nav_updir
    \/ \E wd \in LoadPaths : nav_cd(wd)
    \/ \E path \in LoadPaths : nav_deliver(path)
    \/ nav_renew(height)
    \/ nav_reload

SpecLoads ==
    /\ Init
    /\ [][NextLoads]_vars
    /\ \A p \in LoadPaths : WF_vars(nav_deliver(p))

\* SpecRebuild: the operations that call getDirs, the receives that load the
\* listings and the cursor movement between the calls
NextRebuild ==
    \/ \E wd \in CdPaths : nav_cd(wd)
    \/ \E path \in CdPaths : nav_find(path)
    \/ nav_reload
    \/ \E path \in PathsU : nav_deliver(path)
    \/ nav_up(1)
    \/ nav_down(1)

SpecRebuild == Init /\ [][NextRebuild]_vars

\* what the environment removes: /a, with /a/b
RemPaths == {PA}

\* SpecFs: Spec in a file system that loses entries while lf runs
NextFs ==
    \/ Next
    \/ \E p \in RemPaths : fs_remove(p)

SpecFs == Init /\ [][NextFs]_vars

(***************************************************************************)
(* Selection and the pending operation.  saveFiles, loadFiles and the       *)
(* command of putCommand are collaborators: each call of them succeeds or   *)
(* fails, and a failed saveFiles leaves the store as it was or already      *)
(* truncated.                                                               *)
(***************************************************************************)
\* nav.toggle: toggleMark(curr.path), down(1)
nav_toggle ==
    /\ ~crashed
    /\ IF NoCurrFile(currDir)
       THEN /\ ret' = Ret("toggle", FALSE, Root)
            /\ UNCHANGED <<dirCache, marks, markInd, markHist, crashed>>
       ELSE IF ~CurrOK(currDir)
       THEN /\ crashed' = TRUE
            /\ ret' = Ret("toggle", FALSE, Root)
            /\ UNCHANGED <<dirCache, marks, markInd, markHist>>
       ELSE LET path == currDir.fi[currDir.ind + 1].path
                r == toggleMark(marks, markInd, path)
            IN  /\ path \in DOMAIN marks \/ markInd < MaxMarkInd
                /\ marks' = r.marks
                /\ markInd' = r.markInd
                /\ markHist' = IF path \in DOMAIN marks
                               THEN RemoveFrom(markHist, path)
                               ELSE Append(markHist, path)
                /\ SetCurr(down(currDir, 1, height, gOpts))
                /\ ret' = Ret("toggle", FALSE, path)
                /\ UNCHANGED crashed
    /\ UNCHANGED <<dirs, inflight, cwd, height, search, gOpts, Extra>>

\* the loop of nav.invert: toggleMark on each path in turn
RECURSIVE invertLoop(_, _, _, _)
invertLoop(m, mi, hist, paths) ==
    IF paths = <<>> THEN [marks |-> m, markInd |-> mi, hist |-> hist]
    ELSE LET path == Head(paths)
             r == toggleMark(m, mi, path)
         IN  invertLoop(r.marks, r.markInd,
                        IF path \in DOMAIN m THEN RemoveFrom(hist, path) ELSE Append(hist, path),
                        Tail(paths))

\* nav.invert: the paths are filepath.Join(last.path, f.Name())
nav_invert ==
    /\ ~crashed
    /\ LET paths == [i \in DOMAIN currDir.fi |-> Join(top_, currDir.fi[i].name)]
           adds == Cardinality({ i \in DOMAIN paths : paths[i] \notin DOMAIN marks })
           r == invertLoop(marks, markInd, markHist, paths)
       IN  /\ markInd + adds <= MaxMarkInd
           /\ marks' = r.marks
           /\ markInd' = r.markInd
           /\ markHist' = r.hist
    /\ ret' = Ret("invert", FALSE, Root)
    /\ UNCHANGED <<dirs, dirCache, inflight, cwd, height, search, gOpts, crashed, Extra>>

\* the outcome of a put: the store after it, whether it returned an error, and how
\* far it got: "load", "empty", "run", "clear" name the step that failed
PutResult(st, err, step) == [store |-> st, err |-> err, step |-> step]

\* put clearing the store before it looks at the command's result
putClearsEarly(st, loadOk, runOk, clearOk, cleared) ==
    IF ~loadOk THEN PutResult(st, TRUE, "load")
    ELSE IF Len(st.list) = 0 THEN PutResult(st, TRUE, "empty")
    ELSE IF ~runOk THEN PutResult(NoPending, TRUE, "run")
    ELSE IF ~clearOk THEN PutResult(cleared, TRUE, "clear")
    ELSE PutResult(NoPending, FALSE, "done")

\* nav.put: loadFiles, the empty test, cmd.Run, saveFiles(nil, false)
put(st, loadOk, runOk, clearOk, cleared) ==
    IF ~loadOk THEN PutResult(st, TRUE, "load")
    ELSE IF Len(st.list) = 0 THEN PutResult(st, TRUE, "empty")
    ELSE IF ~runOk THEN PutResult(st, TRUE, "run")
    ELSE IF ~clearOk THEN PutResult(cleared, TRUE, "clear")
    ELSE PutResult(NoPending, FALSE, "done")

\* the values of ret.aux after put, by the step it ended at
PutSteps == <<"load", "empty", "run", "clear", "done">>
StepNo(step) == CHOOSE i \in DOMAIN PutSteps : PutSteps[i] = step

SelOnly == <<dirs, dirCache, inflight, cwd, marks, markInd, height, search, gOpts, crashed,
             markHist, removed, regCache, previews, scanned>>

nav_put ==
    /\ ~crashed
    /\ \E loadOk, runOk, clearOk \in BOOLEAN : \E cleared \in {store, NoPending} :
         LET r == put(store, loadOk, runOk, clearOk, cleared)
         IN  /\ store' = r.store
             /\ ret' = RetAux("put", r.err, Root, StepNo(r.step))
    /\ UNCHANGED saves
    /\ UNCHANGED SelOnly

\* nav.save
nav_save(copy) ==
    /\ ~crashed
    /\ IF DOMAIN marks = {}
       THEN IF NoCurrFile(currDir)
            THEN /\ ret' = Ret("save", TRUE, Root)
                 /\ UNCHANGED <<store, saves>>
            ELSE /\ CurrOK(currDir)
                 /\ LET path == currDir.fi[currDir.ind + 1].path
                    IN  \/ /\ ret' = Ret("save", TRUE, Root)
                           /\ UNCHANGED <<store, saves>>
                        \/ /\ store' = Pending(<<path>>, copy)
                           /\ saves' = (path :> copy)
                           /\ ret' = Ret("save", FALSE, Root)
       ELSE \E list \in currMarks(marks) :
                \/ /\ ret' = Ret("save", TRUE, Root)
                   /\ UNCHANGED <<store, saves>>
                \/ /\ store' = Pending(list, copy)
                   /\ saves' = [f \in DOMAIN marks |-> copy]
                   /\ ret' = Ret("save", FALSE, Root)
    /\ UNCHANGED SelOnly

\* nav.sync
nav_sync ==
    /\ ~crashed
    /\ \/ /\ ret' = Ret("sync", TRUE, Root)
          /\ UNCHANGED saves
       \/ /\ saves' = [f \in { store.list[i] : i \in DOMAIN store.list } |-> store.copy]
          /\ ret' = Ret("sync", FALSE, Root)
    /\ UNCHANGED store
    /\ UNCHANGED SelOnly

(***************************************************************************)
(* SpecPut: marking, save and put in the loaded root directory.             *)
(***************************************************************************)
InitPut ==
    /\ dirs = <<Root>>
    /\ gOpts = MainOpts
    /\ height = MaxHeight
    /\ removed = {}
    /\ dirCache = (Root :> Loaded(readdir(Root), gOpts))
    /\ inflight = [p \in PathsU |-> 0]
    /\ cwd = Root
    /\ marks = EmptyFn
    /\ markInd = 0
    /\ search = <<>>
    /\ ret = Ret("init", FALSE, Root)
    /\ crashed = FALSE
    /\ markHist = <<>>
    /\ store = NoPending
    /\ saves = EmptyFn
    /\ regCache = EmptyFn
    /\ previews = <<>>
    /\ scanned = <<>>

NextPut ==
    \/ nav_toggle
    \/ nav_unmark
    \/ nav_up(1)
    \/ \E copy \in BOOLEAN : nav_save(copy)
    \/ nav_put
    \/ nav_sync

SpecPut == InitPut /\ [][NextPut]_vars

(***************************************************************************)
(* SpecSelect: the operations on the mark set in the loaded root directory, *)
(* with entries removed from outside and renew pruning their marks.         *)
(***************************************************************************)
SelectPaths == {PF, PA, PAB}

NextSelect ==
    \/ \E path \in SelectPaths : nav_toggleMark(path)
    \/ nav_toggle
    \/ nav_invert
    \/ nav_unmark
    \/ nav_up(1)
    \/ nav_renew(height)
    \/ nav_deliver(Root)
    \/ \E p \in {PA, PF} : fs_remove(p)

SpecSelect == InitPut /\ [][NextSelect]_vars

(***************************************************************************)
(* Preview registers.  A reg is its path and whether it is the "loading"    *)
(* placeholder; the lines of a finished reg are the content of its path.    *)
(* A worker of loadReg is `go nav.preview()`: it is not given the path, it  *)
(* calls nav.currFile() itself when it runs.  want is the path loadReg was  *)
(* called with, kept as history; got is the path the worker read.           *)
(***************************************************************************)
Reg(path, loading) == [path |-> path, loading |-> loading]
Worker(want, read, got) == [want |-> want, read |-> read, got |-> got]

RegState(cache, pv) == [cache |-> cache, previews |-> pv]

\* nav.loadReg
loadReg(cache, pv, path) ==
    IF path \in DOMAIN cache
    THEN RegState(cache, pv)
    ELSE RegState(With(cache, path, Reg(path, TRUE)), Append(pv, Worker(path, FALSE, NoPath)))

DropAt(seq, i) == SubSeq(seq, 1, i - 1) \o SubSeq(seq, i + 1, Len(seq))

PreviewOnly == <<dirs, dirCache, inflight, cwd, marks, markInd, height, search, gOpts,
                 markHist, removed, store, saves, scanned>>

\* loadReg(ui, curr.path): the preview pane asks for the regular file under the
\* cursor
nav_loadReg ==
    /\ ~crashed
    /\ ~NoCurrFile(currDir)
    /\ CurrOK(currDir)
    /\ ~currDir.fi[currDir.ind + 1].isDir
    /\ LET path == currDir.fi[currDir.ind + 1].path
           r == loadReg(regCache, previews, path)
       IN  /\ path \in DOMAIN regCache \/ Len(previews) < MaxPreviews
           /\ regCache' = r.cache
           /\ previews' = r.previews
    /\ ret' = Ret("loadReg", FALSE, Root)
    /\ UNCHANGED crashed
    /\ UNCHANGED PreviewOnly

\* the first statement of a preview worker: curr, err := nav.currFile(), read
\* without synchronisation while the owner moves the cursor and the stack
preview_currFile(i) ==
    /\ ~crashed
    /\ i \in DOMAIN previews
    /\ ~previews[i].read
    /\ IF NoCurrFile(currDir)
       THEN previews' = DropAt(previews, i) /\ UNCHANGED crashed
       ELSE IF ~CurrOK(currDir)
       THEN crashed' = TRUE /\ UNCHANGED previews
       ELSE /\ previews' = [previews EXCEPT ![i] =
                               Worker(@.want, TRUE, currDir.fi[currDir.ind + 1].path)]
            /\ UNCHANGED crashed
    /\ ret' = Ret("preview", FALSE, Root)
    /\ UNCHANGED regCache
    /\ UNCHANGED PreviewOnly

\* the consumer of regChan: the reg replaces the cache entry of its path
nav_deliverReg(i) ==
    /\ ~crashed
    /\ i \in DOMAIN previews
    /\ previews[i].read
    /\ regCache' = With(regCache, previews[i].got, Reg(previews[i].got, FALSE))
    /\ previews' = DropAt(previews, i)
    /\ ret' = Ret("deliverReg", FALSE, Root)
    /\ UNCHANGED crashed
    /\ UNCHANGED PreviewOnly

(***************************************************************************)
(* SpecPreview: previews requested while the owner moves the cursor and the *)
(* stack.                                                                   *)
(***************************************************************************)
NextPreview ==
    \/ nav_loadReg
    \/ \E i \in 1..MaxPreviews : preview_currFile(i)
    \/ \E i \in 1..MaxPreviews : nav_deliverReg(i)
    \/ \E path \in PathsU : nav_deliver(path)
    \/ nav_up(1)
    \/ nav_down(1)
    \/ nav_open
    \/ nav_updir
    \/ \E wd \in LoadPaths : nav_cd(wd)

SpecPreview == Init /\ [][NextPreview]_vars

\* C1: open() with the cursor on a regular file returns an error and leaves the
\* stack as it was.
C1_OpenFileKeepsStack ==
    [][(/\ ret'.op = "open"
        /\ ~NoCurrFile(currDir)
        /\ CurrOK(currDir)
        /\ ~currDir.fi[currDir.ind + 1].isDir)
       => (/\ ret'.err
           /\ dirs' = dirs
           /\ \A i \in DOMAIN dirs : dirCache'[dirs[i]] = dirCache[dirs[i]])]_vars

\* C2: no path ever has two scan workers in flight.
C2_OneLoadInFlight == \A p \in DOMAIN inflight : inflight[p] <= 1

\* C3: with no cache rebuild, a path never has two workers in flight; loadDir of
\* an uncached path inserts the loading placeholder and leaves exactly one worker
\* for it, loadDir of a cached path returns the cached listing and spawns nothing.
C3_SingleScan ==
    /\ [](\A p \in DOMAIN inflight : inflight[p] <= 1)
    /\ [][ret'.op = "loadDir" =>
            LET path == ret'.arg
            IN  IF path \in DOMAIN dirCache
                THEN inflight' = inflight /\ dirCache' = dirCache
                ELSE /\ inflight'[path] = 1
                     /\ \A q \in DOMAIN inflight \ {path} : inflight'[q] = inflight[q]
                     /\ dirCache'[path] = Placeholder]_vars

\* a second loadDir of a path whose first load is still in flight
C3_Witness ==
    /\ ret.op = "loadDir"
    /\ ret.aux = 1
    /\ dirCache[ret.arg].loading
    /\ inflight[ret.arg] = 1

\* C6: open, updir, cd and selectPath, failed or not, leave the working directory
\* on the path of the top listing if it was there before.
C6_CwdIsTop ==
    [][(ret'.op \in {"open", "updir", "cd", "select"} /\ ~crashed' /\ cwd = top_)
        => cwd' = top_']_vars

\* C11: an updir, cd or selectPath that returns an error leaves the stack as it
\* was before the call.
C11_ErrorKeepsStack ==
    [][(ret'.op \in {"updir", "cd", "select"} /\ ret'.err) => dirs' = dirs]_vars

\* C12: put on an empty store returns the empty-buffer error, runs no command and
\* leaves the store; a failed command leaves the store; the store changes only
\* after the command succeeded, and a put without error leaves it empty.
C12_PutKeepsStore ==
    [][ret'.op = "put" =>
        /\ (Len(store.list) = 0 /\ PutSteps[ret'.aux] # "load")
              => (ret'.err /\ PutSteps[ret'.aux] = "empty" /\ store' = store)
        /\ PutSteps[ret'.aux] = "run" => (ret'.err /\ store' = store)
        /\ store' # store => (PutSteps[ret'.aux] \in {"clear", "done"} /\ store' = NoPending)
        /\ ~ret'.err => store' = NoPending]_vars

\* a put of two marked files, moved, whose command failed
C12_Witness ==
    /\ ret.op = "put"
    /\ PutSteps[ret.aux] = "run"
    /\ Len(store.list) = 2
    /\ ~store.copy

\* C13: the register a preview worker delivers is for the path its loadReg call
\* asked for: a worker that has read the current file holds the requested path.
C13_PreviewForRequested ==
    \A i \in DOMAIN previews : previews[i].read => previews[i].got = previews[i].want

\* C14: the process is never terminated: no panic, whatever the file system
\* does; a refresh of a stack whose directory was removed logs and goes on.
C14_NeverTerminates == ~crashed

\* C15: a started load is never cancelled and is delivered once: the number of
\* loads in flight for a path goes down only by one, in a receive from dirChan;
\* a reload, which empties the cache, adds a load for every level and leaves the
\* earlier ones in flight; and while a path has a load in flight, a listing of
\* it is eventually received, on or off the stack, unless the process died.
C15_LoadDelivered ==
    /\ [][\A p \in PathsU :
            \/ inflight'[p] >= inflight[p]
            \/ ret'.op = "deliver" /\ inflight'[p] = inflight[p] - 1]_vars
    /\ [][(ret'.op = "reload" /\ ~crashed') =>
            \A p \in PathsU :
                inflight'[p] = inflight[p] + (IF p \in Ancestors(cwd) THEN 1 ELSE 0)]_vars
    /\ \A p \in LoadPaths :
            (inflight[p] > 0) ~> (crashed \/ (ret.op = "deliver" /\ ret.arg = p))

\* a reload while the first load of / was in flight: both are delivered later
C15_Witness ==
    /\ ret.op = "deliver"
    /\ inflight[Root] = 1
    /\ Root \in DOMAIN dirCache
    /\ ~dirCache[Root].loading
    /\ dirCache[Root].loadTime = 1

\* C16: after getDirs(wd), in newNav, cd, selectPath and reload, the stack is the
\* listings of wd's ancestors from the root down to wd, one each; and a level
\* below the top that is loaded and shows the next level's base name has its
\* cursor on that entry.
C16_StackOfAncestors ==
    (ret.op \in {"init", "cd", "select", "reload"} /\ ~ret.err /\ ~crashed) =>
        /\ dirs = [k \in 1..(Len(cwd) + 1) |-> SubSeq(cwd, 1, k - 1)]
        /\ \A i \in 1..(Len(dirs) - 1) :
              LET d == dirCache[dirs[i]]
                  name == Base(dirs[i + 1])
              IN  (~d.loading /\ \E k \in DOMAIN d.fi : d.fi[k].name = name)
                    => d.fi[d.ind + 1].name = name

\* cd /a/b with / and /a loaded: three levels, the cursors on a and on b
C16_Witness ==
    /\ ret.op = "cd"
    /\ ~ret.err
    /\ dirs = <<Root, PA, PAB>>
    /\ ~dirCache[Root].loading
    /\ ~dirCache[PA].loading
    /\ dirCache[Root].fi[dirCache[Root].ind + 1].name = <<97>>
    /\ dirCache[PA].fi[dirCache[PA].ind + 1].name = <<98>>

\* C17: whatever sorts and configurations came before, dir.sort() leaves visible
\* as a sort of the entries in their scan order would under the current
\* configuration: ties under the current key are in scan order.
C17_SortFromScan ==
    ret.op = "dir.sort" => dirCache[Root].fi = dir_sort(newDir(scanned), gOpts).fi

\* C18: the sequence numbers of the marked paths are pairwise distinct and
\* smaller than markInd, and markInd is 0 whenever no path is marked.
C18_MarkNumbers ==
    /\ \A p, q \in DOMAIN marks : p # q => marks[p] # marks[q]
    /\ \A p \in DOMAIN marks : marks[p] < markInd
    /\ DOMAIN marks = {} => markInd = 0

\* /a marked first, /f second, /a removed, and renew has pruned its mark
C18_Witness ==
    /\ ret.op = "renew"
    /\ PA \in removed
    /\ DOMAIN marks = {PF}
    /\ marks[PF] = 1
    /\ markInd = 2

\* C19: in every listing, every entry of visible is an entry of all.
C19_VisibleFromAll ==
    \A p \in DOMAIN dirCache :
        \A i \in DOMAIN dirCache[p].fi :
            \E k \in DOMAIN dirCache[p].all : dirCache[p].all[k] = dirCache[p].fi[i]

\* C20: the stack is never empty and every level's path is the parent directory
\* of the path of the level above it; updir on a stack of one level changes
\* nothing.
C20_ParentChain ==
    /\ [](dirs # <<>>)
    /\ [](\A i \in 1..(Len(dirs) - 1) : dirs[i] = Dir(dirs[i + 1]))
    /\ [][(ret'.op = "updir" /\ Len(dirs) = 1) =>
            (dirs' = dirs /\ cwd' = cwd /\ dirCache' = dirCache)]_vars

=============================================================================
